---- MODULE Spec2Model ----
(***************************************************************************)
(* Model of the htcondor-python-bindings-tutorials repository:             *)
(*   - docker/local.sh, the launcher script (build the image, then run a   *)
(*     container hosting `jupyter lab` on port 8888);                      *)
(*   - the code cells of the two tutorial notebooks, executed in order in  *)
(*     the notebook server of a running container, together with the       *)
(*     outputs recorded in the .ipynb files.                               *)
(* The HTCondor daemons and the htcondor Python module are external to the *)
(* repository; the model keeps of them only what the cells themselves      *)
(* switch (daemons turned off and on) and the documented permission rule   *)
(* of RemoteParam assignment.                                              *)
(***************************************************************************)
EXTENDS Integers, Sequences, FiniteSets, TLC

(* ---------------------------- bounds ---------------------------------- *)

\* number of terminals from which docker/local.sh may be started
NumShells == 1

Shells == 1 .. NumShells

(* ------------------------- docker/local.sh ---------------------------- *)

\* local.sh line 5: the value assigned to CONTAINER_TAG
TutorialTag == "htcondor-python-bindings-tutorials"

\* command lines the script may be started with (the script reads none of it)
ArgvChoices == { <<>>, <<"--port=9999">>, <<"-t", "other-tag">> }

\* values of CONTAINER_TAG inherited from the caller's environment
EnvTagChoices == { "unset", "other-tag" }

\* local.sh line 3: `set -e` turns errexit on
SetErrexit == TRUE

\* variant of line 5 that keeps a tag inherited from the environment,
\* as CONTAINER_TAG=${CONTAINER_TAG:-htcondor-python-bindings-tutorials} would
AssignTagFromEnv(inherited, args) ==
    IF inherited # "unset" THEN inherited ELSE "htcondor-python-bindings-tutorials"

\* local.sh line 5: CONTAINER_TAG=htcondor-python-bindings-tutorials
\* (the inherited value and the arguments are not consulted)
AssignTag(inherited, args) == TutorialTag

\* local.sh line 7: docker build -t ${CONTAINER_TAG} --file docker/Dockerfile .
BuildCmd(tag) ==
    [cmd |-> "build", tag |-> tag, file |-> "docker/Dockerfile", context |-> ".",
     publish |-> <<>>, rm |-> FALSE, tty |-> FALSE, command |-> <<>>]

\* local.sh line 8: docker run -it --rm -p 8888:8888 ${CONTAINER_TAG} jupyter lab
RunCmd(tag) ==
    [cmd |-> "run", tag |-> tag, file |-> "", context |-> "",
     publish |-> <<8888, 8888>>, rm |-> TRUE, tty |-> TRUE,
     command |-> <<"jupyter", "lab">>]

\* host port of the -p 8888:8888 option
HostPort(c) == c.publish[1]

\* container port of the -p 8888:8888 option
ContainerPort(c) == c.publish[2]

\* holder of host port 8888 that is not one of the script's containers
OtherProgram == -1

VARIABLES
    pc,         \* pc[s]: position of the script started from shell s
    argv,       \* argv[s]: the arguments the script was started with
    envTag,     \* envTag[s]: CONTAINER_TAG in the caller's environment
    errexit,    \* errexit[s]: the shell option set by `set -e`
    tagVar,     \* tagVar[s]: the shell variable CONTAINER_TAG
    issued,     \* issued[s]: docker commands issued so far by this run
    finished,   \* finished[s]: exit statuses of the commands that returned
    images,     \* tags present in the local docker image store
    portOwner   \* shell whose container holds host port 8888 (0: free,
                \* OtherProgram: a program outside docker listens on it)

scriptVars == <<pc, argv, envTag, errexit, tagVar, issued, finished, images, portOwner>>

(* ------------------------ the tutorial notebooks ---------------------- *)

Notebooks == { "Interacting-With-Daemons", "Submitting-and-Managing-Jobs" }

\* the daemons of the personal HTCondor instance that the cells address
Daemons == { "master", "collector", "schedd" }

\* One record per code cell, in file order.
\*   prints    the cell calls print() when it runs to its end
\*   value     its last statement is an expression with a displayed value
\*   needs     the daemon its calls contact ("" when purely local)
\*   effect    what it does to the daemons: "", "scheddOff", "allOff", "allOn"
\*   setsRemote  it assigns through RemoteParam.__setitem__
\*   saved     execution_count is not null, i.e. outputs were saved in the file
\*   recorded  the output_type values of its saved outputs
Cell(prints, value, needs, effect, setsRemote, saved, recorded) ==
    [prints |-> prints, value |-> value, needs |-> needs,
     effect |-> effect, setsRemote |-> setsRemote, saved |-> saved,
     recorded |-> recorded]

\* Interacting-With-Daemons.ipynb, code cells
DaemonsCells == <<
    Cell(FALSE, FALSE, "",          "",          FALSE, TRUE, {}),
    Cell(TRUE,  FALSE, "",          "",          FALSE, TRUE, {"stream"}),
    Cell(TRUE,  FALSE, "",          "",          FALSE, TRUE, {"stream"}),
    Cell(TRUE,  FALSE, "",          "",          FALSE, TRUE, {"stream"}),
    Cell(TRUE,  FALSE, "collector", "",          FALSE, TRUE, {"stream"}),
    Cell(TRUE,  FALSE, "master",    "",          FALSE, TRUE, {"stream"}),
    Cell(FALSE, FALSE, "master",    "",          TRUE,  TRUE, {"error"}),
    Cell(TRUE,  FALSE, "",          "",          FALSE, TRUE, {"stream"}),
    Cell(TRUE,  FALSE, "master",    "",          FALSE, TRUE, {"stream"}),
    Cell(TRUE,  FALSE, "master",    "scheddOff", FALSE, TRUE, {"stream"}),
    Cell(TRUE,  FALSE, "master",    "allOff",    FALSE, TRUE, {"stream"}),
    Cell(FALSE, TRUE,  "",          "allOn",     FALSE, TRUE, {"execute_result"}) >>

\* Submitting-and-Managing-Jobs.ipynb, code cells (saved without outputs)
SubmittingCells == <<
    Cell(FALSE, FALSE, "",       "", FALSE, FALSE, {}),
    Cell(TRUE,  FALSE, "",       "", FALSE, FALSE, {}),
    Cell(FALSE, FALSE, "",       "", FALSE, FALSE, {}),
    Cell(TRUE,  FALSE, "schedd", "", FALSE, FALSE, {}),
    Cell(TRUE,  FALSE, "schedd", "", FALSE, FALSE, {}) >>

Cells(nb) == IF nb = "Interacting-With-Daemons" THEN DaemonsCells ELSE SubmittingCells

\* index of the cell `master_param['UPDATE_INTERVAL'] = '500'`
SetCell == 7

\* the error recorded for that cell: ename and evalue
RecordedError == <<"RuntimeError", "Failed to set remote daemon parameter.">>

\* error of a call whose daemon is not running
Unreachable == <<"Error", "daemon not running">>

NoError == <<"", "">>

\* variant in which the remote daemon accepts every assignment
CellErrorNoRefusal(c, upNow, mayset) ==
    IF c.needs # "" /\ c.needs \notin upNow THEN Unreachable ELSE NoError

\* the exception a cell ends with (NoError if it runs to its end), given the
\* daemons that are up and whether remote configuration may be set
CellError(c, upNow, mayset) ==
    IF c.needs # "" /\ c.needs \notin upNow THEN Unreachable
    ELSE IF c.setsRemote /\ ~mayset THEN RecordedError
    ELSE NoError

\* the output_type values of the outputs the notebook shows for the cell
CellOutputs(c, err) ==
    IF err = NoError
    THEN (IF c.prints THEN {"stream"} ELSE {})
         \cup (IF c.value THEN {"execute_result"} ELSE {})
    ELSE {"error"}

\* the daemons running after the cell
CellEffect(c, err, upNow) ==
    IF err # NoError THEN upNow
    ELSE IF c.effect = "scheddOff" THEN upNow \ {"schedd"}
    ELSE IF c.effect = "allOff" THEN {}
    ELSE IF c.effect = "allOn" THEN Daemons
    ELSE upNow

VARIABLES
    up,         \* daemons of the container's HTCondor instance that are running
    mayset,     \* whether the instance permits setting remote parameters
    ran         \* ran[nb]: results of the cells executed so far, in order

nbVars == <<up, mayset, ran>>

vars == <<pc, argv, envTag, errexit, tagVar, issued, finished, images, portOwner,
          up, mayset, ran>>

(* ------------------------------- Init --------------------------------- *)

Init ==
    /\ pc = [s \in Shells |-> "idle"]
    /\ argv = [s \in Shells |-> <<>>]
    /\ envTag = [s \in Shells |-> "unset"]
    /\ errexit = [s \in Shells |-> FALSE]
    /\ tagVar = [s \in Shells |-> "unset"]
    /\ issued = [s \in Shells |-> <<>>]
    /\ finished = [s \in Shells |-> <<>>]
    /\ images = {}
    /\ portOwner = 0
    /\ up = {}
    /\ mayset = FALSE
    /\ ran = [nb \in Notebooks |-> <<>>]

(* --------------------------- script actions --------------------------- *)

\* a user starts docker/local.sh from a shell, with any arguments and environment
Invoke(s) ==
    /\ pc[s] \in {"idle", "exit"}
    /\ \E a \in ArgvChoices, e \in EnvTagChoices :
          /\ argv' = [argv EXCEPT ![s] = a]
          /\ envTag' = [envTag EXCEPT ![s] = e]
          /\ tagVar' = [tagVar EXCEPT ![s] = e]
    /\ errexit' = [errexit EXCEPT ![s] = FALSE]
    /\ issued' = [issued EXCEPT ![s] = <<>>]
    /\ finished' = [finished EXCEPT ![s] = <<>>]
    /\ pc' = [pc EXCEPT ![s] = "line3"]
    /\ UNCHANGED <<images, portOwner, nbVars>>

\* line 3: set -e
SetE(s) ==
    /\ pc[s] = "line3"
    /\ errexit' = [errexit EXCEPT ![s] = SetErrexit]
    /\ pc' = [pc EXCEPT ![s] = "line5"]
    /\ UNCHANGED <<argv, envTag, tagVar, issued, finished, images, portOwner, nbVars>>

\* line 5: CONTAINER_TAG=...
SetTag(s) ==
    /\ pc[s] = "line5"
    /\ tagVar' = [tagVar EXCEPT ![s] = AssignTag(tagVar[s], argv[s])]
    /\ pc' = [pc EXCEPT ![s] = "line7"]
    /\ UNCHANGED <<argv, envTag, errexit, issued, finished, images, portOwner, nbVars>>

\* line 7: docker build starts
BuildStart(s) ==
    /\ pc[s] = "line7"
    /\ issued' = [issued EXCEPT ![s] = Append(@, BuildCmd(tagVar[s]))]
    /\ pc' = [pc EXCEPT ![s] = "building"]
    /\ UNCHANGED <<argv, envTag, errexit, tagVar, finished, images, portOwner, nbVars>>

\* where the script continues after a command returned with the given status
AfterCommand(status, errexitOn, next) ==
    IF status # 0 /\ errexitOn THEN "exit" ELSE next

\* line 7: docker build returns; on success the image carries the tag
BuildFinish(s) ==
    /\ pc[s] = "building"
    /\ \E status \in {0, 1} :
          /\ finished' = [finished EXCEPT ![s] = Append(@, status)]
          /\ images' = IF status = 0 THEN images \cup {issued[s][1].tag} ELSE images
          /\ pc' = [pc EXCEPT ![s] = AfterCommand(status, errexit[s], "line8")]
    /\ UNCHANGED <<argv, envTag, errexit, tagVar, issued, portOwner, nbVars>>

\* line 8: docker run starts; it fails at once when the image is missing or
\* the host port is taken, otherwise the container starts in the foreground
\* with a freshly started HTCondor instance
RunStart(s) ==
    /\ pc[s] = "line8"
    /\ LET c == RunCmd(tagVar[s]) IN
         /\ issued' = [issued EXCEPT ![s] = Append(@, c)]
         /\ IF c.tag \in images /\ portOwner = 0
            THEN /\ portOwner' = s
                 /\ pc' = [pc EXCEPT ![s] = "running"]
                 /\ finished' = finished
                 /\ up' = Daemons
                 /\ mayset' \in BOOLEAN
                 /\ ran' = [nb \in Notebooks |-> <<>>]
            ELSE /\ finished' = [finished EXCEPT ![s] = Append(@, 125)]
                 /\ pc' = [pc EXCEPT ![s] = "exit"]
                 /\ UNCHANGED <<portOwner, nbVars>>
    /\ UNCHANGED <<argv, envTag, errexit, tagVar, images>>

\* line 8: jupyter lab ends, `--rm` removes the container, the script ends
ContainerExit(s) ==
    /\ pc[s] = "running"
    /\ portOwner = s
    /\ portOwner' = 0
    /\ finished' = [finished EXCEPT ![s] = Append(@, 0)]
    /\ pc' = [pc EXCEPT ![s] = "exit"]
    /\ up' = {}
    /\ mayset' = FALSE
    /\ ran' = [nb \in Notebooks |-> <<>>]
    /\ UNCHANGED <<argv, envTag, errexit, tagVar, issued, images>>

\* some other program on the host takes port 8888
OtherBind ==
    /\ portOwner = 0
    /\ portOwner' = OtherProgram
    /\ UNCHANGED <<pc, argv, envTag, errexit, tagVar, issued, finished, images, nbVars>>

\* that program releases the port
OtherRelease ==
    /\ portOwner = OtherProgram
    /\ portOwner' = 0
    /\ UNCHANGED <<pc, argv, envTag, errexit, tagVar, issued, finished, images, nbVars>>

(* -------------------------- notebook actions -------------------------- *)

\* the result of executing cell i of notebook nb in the current instance
RunCell(nb, i) ==
    LET c == Cells(nb)[i]
        err == CellError(c, up, mayset)
    IN  [error |-> err,
         outputs |-> CellOutputs(c, err),
         instanceUp |-> (c.needs = "" \/ c.needs \in up)]

\* the user executes the next code cell of a notebook (an error in a cell
\* does not keep the user from executing the following ones)
ExecuteCell(nb) ==
    /\ portOwner \in Shells
    /\ Len(ran[nb]) < Len(Cells(nb))
    /\ LET i == Len(ran[nb]) + 1
           r == RunCell(nb, i)
       IN  /\ ran' = [ran EXCEPT ![nb] = Append(@, r)]
           /\ up' = CellEffect(Cells(nb)[i], r.error, up)
    /\ UNCHANGED <<mayset, scriptVars>>

Next ==
    \/ \E s \in Shells : Invoke(s)
    \/ \E s \in Shells : SetE(s)
    \/ \E s \in Shells : SetTag(s)
    \/ \E s \in Shells : BuildStart(s)
    \/ \E s \in Shells : BuildFinish(s)
    \/ \E s \in Shells : RunStart(s)
    \/ \E s \in Shells : ContainerExit(s)
    \/ OtherBind
    \/ OtherRelease
    \/ \E nb \in Notebooks : ExecuteCell(nb)

Spec == Init /\ [][Next]_vars

(* ------------------------------ properties ---------------------------- *)

Prefix(a, b) == Len(a) <= Len(b) /\ \A i \in 1 .. Len(a) : a[i] = b[i]

\* the two docker commands of the claim, written out field by field
ExpectedBuild ==
    [cmd |-> "build", tag |-> "htcondor-python-bindings-tutorials",
     file |-> "docker/Dockerfile", context |-> ".",
     publish |-> <<>>, rm |-> FALSE, tty |-> FALSE, command |-> <<>>]

ExpectedRun ==
    [cmd |-> "run", tag |-> "htcondor-python-bindings-tutorials",
     file |-> "", context |-> "",
     publish |-> <<8888, 8888>>, rm |-> TRUE, tty |-> TRUE,
     command |-> <<"jupyter", "lab">>]

\* C7: whatever arguments and environment docker/local.sh is started with, the
\* docker commands it issues are, in order, the build of the image tagged
\* htcondor-python-bindings-tutorials and then the run of a container from
\* that same tag with `jupyter lab` and port 8888 published on host port
\* 8888, and nothing else; the run is issued only after the build has
\* returned (successfully), and a container is up only for a built image.
C7_BuildThenRun ==
    \A s \in Shells :
        /\ Prefix(issued[s], <<ExpectedBuild, ExpectedRun>>)
        /\ Len(issued[s]) = 2 =>
              /\ Len(finished[s]) >= 1
              /\ finished[s][1] = 0
              /\ issued[s][2].tag = issued[s][1].tag
              /\ HostPort(issued[s][2]) = 8888
              /\ ContainerPort(issued[s][2]) = 8888
              /\ issued[s][2].tag \in images
        /\ pc[s] = "running" => Len(issued[s]) = 2 /\ portOwner = s
        /\ (pc[s] = "exit" /\ \A i \in 1 .. Len(finished[s]) : finished[s][i] = 0)
              => Len(issued[s]) = 2 /\ Len(finished[s]) = 2

\* C7 witness: a run started with an option and with CONTAINER_TAG set in the
\* environment has built the image and now holds the notebook server's container
C7_Witness ==
    \E s \in Shells :
        /\ pc[s] = "running"
        /\ argv[s] # <<>>
        /\ envTag[s] = "other-tag"
        /\ issued[s] = <<ExpectedBuild, ExpectedRun>>
        /\ finished[s] = <<0>>

Executed == { <<nb, i>> \in Notebooks \X (1 .. 12) : i <= Len(ran[nb]) }

Matches(nb, i) ==
    Cells(nb)[i].saved => ran[nb][i].outputs = Cells(nb)[i].recorded

====
